---- MODULE Spec2Model ----
(***************************************************************************)
(* msimpact: the miniseed dispatcher of src/main.go.                       *)
(*                                                                         *)
(* main() initialises every configured stream, then reads 512 byte blocks, *)
(* routes each block to the stream of its source name, asks the stream     *)
(* whether the block's MMI is worth a message (Flush) and hands positive   *)
(* decisions over the unbuffered channel `result` to one delivery          *)
(* goroutine.                                                              *)
(*                                                                         *)
(* Init, ProcessSamples and Flush belong to the imported package           *)
(* github.com/ozym/impact, of which src/ holds the calls only.  Their      *)
(* bodies are modelled from the design document (sections 4.2 - 4.4);     *)
(* everything else is main.go.  The clock is read in ticks that are coarse *)
(* against the stream setup loop, so it advances once the loop is over.    *)
(*                                                                         *)
(* Specifications: Spec (any input of both streams), SpecGate (one stream, *)
(* the flush gate), SpecReplay (SpecGate with -replay either way), SpecFed *)
(* (a scripted input, main() and the goroutine scheduled fairly), SpecEst  *)
(* (the estimator as a pure function) and SpecDecode (Spec with blocks     *)
(* that do not decode).                                                    *)
(***************************************************************************)
EXTENDS Integers, Sequences, FiniteSets, TLC

\* ------------------------------------------------------------------ bounds
MaxBlocks == 3      \* blocks read from the input files in one run
MaxGateBlocks == 4  \* blocks of one stream read in a run of that stream alone
MaxTime == 2        \* wall clock readings 0..MaxTime
MaxLevel == 2       \* MMI levels 0..MaxLevel
MaxProbation == 1   \* -probation flag values 0..MaxProbation
MaxAmp == 3         \* calibrated amplitudes -MaxAmp..MaxAmp
MaxRows == 2        \* rows of a threshold table under test

\* ----------------------------------------- parameters of the flush gate
FlapTolerance == 1  \* level changes tolerated within the rolling window
FlapWindow == 1     \* length of the rolling window
Cooldown == 1       \* time a Noisy stream stays suppressed

Streams == {"A", "B"}          \* keys of the loaded stream configuration
Unknown == {"X", "Y"}          \* source names with no configuration
Keys == Streams \cup Unknown
NoName == ""                   \* the source name of an empty record
Names == Keys \cup {NoName}
Levels == 0..MaxLevel
Unset == -1                    \* lastEmitted before the first emission

\* number of threshold rows of a stream's configuration
Rows(s) == IF s = "A" THEN MaxLevel + 1 ELSE MaxLevel

\* -level: the largest level in range for every stream, and the next one
LevelFlags == {MaxLevel - 1, MaxLevel}

VARIABLES
    pc,        \* main(): "init", "run", "send", "done", "fatal", "panic"
    now,       \* the wall clock
    probation, \* -probation
    level,     \* -level
    dryrun,    \* -dry-run
    state,     \* state[s]: the stream of source name s
    missing,   \* source names already rejected
    logged,    \* logged[k]: "unable to find stream config" entries for k
    nblocks,   \* blocks read so far
    result,    \* the unbuffered channel: <<>> or <<m>> while main is sending
    handling,  \* the message the delivery goroutine is working on
    sink,      \* the latest message delivered (printed, SendMessage)
    failed,    \* the messages whose SendMessage failed
    last,      \* what the dispatch loop did with the latest block
    replay,    \* -replay
    script,    \* the blocks of the input files in file order, <<>> for any input
    out,       \* the messages put on result so far, kept for a scripted input
    msr,       \* the shared miniseed record: what Unpack left in it
    est        \* an estimator under test: threshold table, peak and level

vars == <<pc, now, probation, level, dryrun, state, missing, logged, nblocks,
          result, handling, sink, failed, last, replay, script, out, msr, est>>

\* a stream as LoadStreams leaves it, before Init
Loaded == [inited |-> FALSE, ninit |-> 0, deadline |-> 0, lastEmitted |-> Unset,
           phase |-> "Initializing", changes |-> <<>>, noisyUntil |-> 0]

NoMessage == [key |-> "", level |-> Unset, blk |-> 0, time |-> <<"none", 0>>]

NoBlock == [kind |-> "none", key |-> "", err |-> "none", mmi |-> 0, emit |-> FALSE]

\* The decoded blocks the input can hold: the source name, whether
\* DataSamples fails, whether ProcessSamples fails, and the MMI of the message
\* ProcessSamples returns (the zero message when it fails).
Blocks ==
    [key : Unknown, serr : {FALSE}, perr : {FALSE}, mmi : {0}]
        \cup [key : Streams, serr : {TRUE}, perr : {FALSE}, mmi : {0}]
        \cup [key : Streams, serr : {FALSE}, perr : {TRUE}, mmi : {0}]
        \cup [key : Streams, serr : {FALSE}, perr : {FALSE}, mmi : Levels]

\* the record of mseed.NewMSRecord(): nothing unpacked into it yet
NoRecord == [key |-> NoName, serr |-> FALSE, perr |-> FALSE, mmi |-> 0,
             ok |-> FALSE]

\* no estimator under test
NoEstimate == [table |-> <<>>, samples |-> <<>>, level |-> Unset]

\* main() before the stream setup loop, whatever the flags
Start ==
    /\ pc = "init"
    /\ now = 0
    /\ state = [s \in Streams |-> Loaded]
    /\ missing = {}
    /\ logged = [k \in Names |-> 0]
    /\ nblocks = 0
    /\ result = <<>>
    /\ handling = <<>>
    /\ sink = NoMessage
    /\ failed = {}
    /\ last = NoBlock
    /\ out = <<>>
    /\ msr = NoRecord

Init ==
    /\ Start
    /\ probation \in 0..MaxProbation
    /\ level \in LevelFlags
    /\ dryrun \in BOOLEAN
    /\ replay = FALSE
    /\ script = <<>>
    /\ est = NoEstimate


\* main() and its goroutine are alive
Running == pc \in {"run", "send"}

\* ------------------------------------------------ the stream (impact package)

\* Init's validation of the sensitivity level against the threshold rows
LevelInRange(s, lvl) == lvl < Rows(s)

\* Stream.Init: probation deadline = current time + window, lastEmitted unset
StreamInit(st, t, window) ==
    [st EXCEPT !.inited = TRUE, !.ninit = @ + 1, !.deadline = t + window,
               !.lastEmitted = Unset, !.phase = "Initializing",
               !.changes = <<>>, !.noisyUntil = 0]

\* the level changes still inside the rolling window at time t
Recent(st, t) == SelectSeq(st.changes, LAMBDA c : c + FlapWindow > t)

\* Stream.Flush: the decision for an estimate mmi evaluated at time t and the
\* stream after it
Flush(st, mmi, t) ==
    IF t < st.deadline
    THEN [emit |-> FALSE, st |-> st]
    ELSE IF st.phase = "Noisy" /\ t < st.noisyUntil
    THEN [emit |-> FALSE, st |-> st]
    ELSE IF st.lastEmitted = Unset
    THEN [emit |-> TRUE,
          st |-> [st EXCEPT !.phase = "Armed", !.lastEmitted = mmi]]
    ELSE IF mmi = st.lastEmitted
    THEN [emit |-> FALSE,
          st |-> [st EXCEPT !.phase = "Armed", !.changes = Recent(st, t)]]
    ELSE IF Len(Recent(st, t)) + 1 > FlapTolerance
    THEN [emit |-> FALSE,
          st |-> [st EXCEPT !.phase = "Noisy", !.noisyUntil = t + Cooldown,
                            !.changes = <<>>]]
    ELSE [emit |-> TRUE,
          st |-> [st EXCEPT !.phase = "Armed", !.lastEmitted = mmi,
                            !.changes = Append(Recent(st, t), t)]]

\* --------------------------------------- the estimator (impact package)

\* the threshold tables LoadStreams accepts: at most MaxRows rows of breakpoint
\* and level, non-decreasing in both
TableRows == [bp : 0..MaxAmp, level : Levels]

NonDecreasing(t) ==
    \A i \in 1..(Len(t) - 1) :
        t[i].bp <= t[i + 1].bp /\ t[i].level <= t[i + 1].level

Tables ==
    {t \in UNION {[1..n -> TableRows] : n \in 0..MaxRows} : NonDecreasing(t)}

\* the calibrated samples of a block, two to a block
SampleBlocks == [1..2 -> (0 - MaxAmp)..MaxAmp]

Abs(x) == IF x < 0 THEN 0 - x ELSE x

\* the peak absolute amplitude of the samples s, scanned first to last
RECURSIVE PeakFrom(_, _, _)
PeakFrom(s, i, peak) ==
    IF i > Len(s) THEN peak
    ELSE PeakFrom(s, i + 1, IF Abs(s[i]) > peak THEN Abs(s[i]) ELSE peak)

Peak(s) == PeakFrom(s, 1, 0)

\* (mutant) the scan stops at the first row whose breakpoint is reached
RECURSIVE LookupFirst(_, _, _, _)
LookupFirst(t, i, peak, lvl) ==
    IF i > Len(t) THEN lvl
    ELSE IF t[i].bp <= peak THEN t[i].level
    ELSE LookupFirst(t, i + 1, peak, lvl)

\* the scan of the threshold table t from row i on: the level of the last row
\* whose breakpoint is at most the peak, lvl when there is none
RECURSIVE Lookup(_, _, _, _)
Lookup(t, i, peak, lvl) ==
    IF i > Len(t) THEN lvl
    ELSE Lookup(t, i + 1, peak, IF t[i].bp <= peak THEN t[i].level ELSE lvl)

\* IntensityEstimator.Estimate: the level of the samples s under the table t
Estimate(s, t) == Lookup(t, 1, Peak(s), 0)

\* an estimator under test: any accepted table, any block of samples
InitEst ==
    /\ Start
    /\ probation = 0
    /\ level = MaxLevel
    /\ dryrun = FALSE
    /\ replay = FALSE
    /\ script = <<>>
    /\ est \in [table : Tables, samples : SampleBlocks, level : {Unset}]

\* the estimator is applied to the samples
Estimates ==
    /\ est.level = Unset
    /\ est' = [est EXCEPT !.level = Estimate(est.samples, est.table)]
    /\ UNCHANGED <<pc, now, probation, level, dryrun, state, missing, logged,
                   nblocks, result, handling, sink, failed, last, replay,
                   script, out, msr>>

NextEst == Estimates

SpecEst == InitEst /\ [][NextEst]_vars

\* ------------------------------------------------------------------ main()

\* (mutant) the range loop stops after the first stream
InitDoneFirst == \E s \in Streams : state[s].inited

\* the range loop over state has visited every stream
InitDone == \A s \in Streams : state[s].inited

\* for s := range state { state[s].Init(s, probation, level) }
InitStream(s) ==
    /\ pc = "init"
    /\ ~state[s].inited
    /\ IF LevelInRange(s, level)
       THEN /\ state' = [state EXCEPT ![s] = StreamInit(@, now, probation)]
            /\ pc' = pc
       ELSE /\ pc' = "fatal"
            /\ state' = state
    /\ UNCHANGED <<now, probation, level, dryrun,
                   replay, script, est, msr, out,
                   missing, logged, nblocks,
                   result, handling, sink, failed, last>>

\* the loop is over: the record, the channel and the goroutine are set up
StartLoop ==
    /\ pc = "init"
    /\ InitDone
    /\ pc' = "run"
    /\ UNCHANGED <<now, probation, level, dryrun,
                   replay, script, est, msr, out,
                   state, missing, logged,
                   nblocks, result, handling, sink, failed, last>>

\* (mutant) the rejected source names are not remembered
RejectedNever(k) == FALSE

\* have we rejected this before?
Rejected(k) == k \in missing

\* (mutant) the error of ProcessSamples is not checked
RouteUnchecked(b) ==
    IF Rejected(b.key) THEN "skip"
    ELSE IF b.key \notin DOMAIN state THEN "unknown"
    ELSE IF b.serr THEN "samples"
    ELSE "flush"

\* where the loop body takes a block: the continue it hits, or the flush
Route(b) ==
    IF Rejected(b.key) THEN "skip"
    ELSE IF b.key \notin DOMAIN state THEN "unknown"
    ELSE IF b.serr THEN "samples"
    ELSE IF b.perr THEN "process"
    ELSE "flush"

\* the error block b carries, if any
ErrorOf(b) == IF b.serr THEN "samples" ELSE IF b.perr THEN "process" ELSE "none"

\* the record of a block: what it held, where the loop took it, what Flush said
Did(kind, b, emit) ==
    [kind |-> kind, key |-> b.key, err |-> ErrorOf(b), mmi |-> b.mmi,
     emit |-> emit]

CanRead == pc = "run"

\* msr.Unpack(blk, n, 1, 0) decodes the block b into the shared record
Unpack(b) ==
    msr' = [key |-> b.key, serr |-> b.serr, perr |-> b.perr, mmi |-> b.mmi,
            ok |-> TRUE]

\* the input holds another block, in a run of at most n blocks
More(n) == nblocks < n

\* if _, ok := missing[srcname]; ok { continue }
SkipMissing(b) ==
    /\ CanRead
    /\ Route(b) = "skip"
    /\ nblocks' = nblocks + 1
    /\ last' = Did("skip", b, FALSE)
    /\ UNCHANGED <<pc, now, probation, level, dryrun,
                   replay, script, est, out,
                   state, missing, logged,
                   result, handling, sink, failed>>

\* unable to find stream config!
LogUnknown(b) ==
    /\ CanRead
    /\ Route(b) = "unknown"
    /\ logged' = [logged EXCEPT ![b.key] = @ + 1]
    /\ missing' = missing \cup {b.key}
    /\ nblocks' = nblocks + 1
    /\ last' = Did("unknown", b, FALSE)
    /\ UNCHANGED <<pc, now, probation, level, dryrun,
                   replay, script, est, out,
                   state, result, handling,
                   sink, failed>>

\* data sample problem! / data processing problem!
BlockError(b) ==
    /\ CanRead
    /\ Route(b) \in {"samples", "process"}
    /\ nblocks' = nblocks + 1
    /\ last' = Did(Route(b), b, FALSE)
    /\ UNCHANGED <<pc, now, probation, level, dryrun,
                   replay, script, est, out,
                   state, missing, logged,
                   result, handling, sink, failed>>

\* clock readings in one second
Second == 2

\* msr.Starttime() of the n-th block of the input
StartTime(n) == <<"start", n>>

\* time.Now() while the clock shows t: any reading within that second
Readings(t) == {t * Second + f : f \in 0..(Second - 1)}

\* (mutant) the reading is kept to its fraction of a second
TruncateNot(t) == t

\* Truncate(time.Second)
Truncate(t) == t - (t % Second)

\* the message of a block: source name, MMI, the block it comes from and the
\* start time of that block
Message(b, n) ==
    [key |-> b.key, level |-> b.mmi, blk |-> n, time |-> StartTime(n)]

\* (mutant) the time of the message is overridden whatever -replay says
StampAlways(m, reading) == [m EXCEPT !.time = <<"wall", Truncate(reading)>>]

\* if replay { message.Time = time.Now().Truncate(time.Second) }
Stamp(m, reading) ==
    IF replay THEN [m EXCEPT !.time = <<"wall", Truncate(reading)>>] ELSE m

\* the input is the script, read block by block
Scripted == script # <<>>

\* the messages put on result so far, once m is put on it
Sent(m) == IF Scripted THEN Append(out, m) ELSE out

\* (mutant) the message is sent whatever Flush answers
EmitsAlways(decision) == TRUE

\* (mutant) the message is dropped whatever Flush answers
EmitsNever(decision) == FALSE

\* if stream.Flush(0, message.MMI) { result <- message }
Emits(decision) == decision.emit

\* (mutant) every source name selects one and the same stream
StreamOfAny(k) == "A"

\* stream, ok := state[srcname]: the stream a source name selects
StreamOf(k) == k

FlushBlock(b) ==
    /\ CanRead
    /\ Route(b) = "flush"
    /\ LET d == Flush(state[StreamOf(b.key)], b.mmi, now)
       IN /\ state' = [state EXCEPT ![StreamOf(b.key)] = d.st]
          /\ last' = Did("flush", b, d.emit)
          /\ IF Emits(d)
             THEN \E reading \in Readings(now) :
                      LET m == Stamp(Message(b, nblocks + 1), reading)
                      IN /\ result' = <<m>>
                         /\ out' = Sent(m)
                         /\ pc' = "send"
             ELSE UNCHANGED <<result, out, pc>>
    /\ nblocks' = nblocks + 1
    /\ UNCHANGED <<now, probation, level, dryrun,
                   replay, script, est,
                   missing, logged, handling,
                   sink, failed>>

\* n == 0 on the last file: main returns and the process exits
EndOfInput ==
    /\ pc = "run"
    /\ pc' = "done"
    /\ UNCHANGED <<now, probation, level, dryrun,
                   replay, script, est, msr, out,
                   state, missing, logged,
                   nblocks, result, handling, sink, failed, last>>

\* ------------------------------------------------- the delivery goroutine

\* (mutant) the goroutine never comes back to `range result`
AtRangeNever(h) == FALSE

\* (mutant) a message is taken while the one before it is still being sent
AtRangeAlways(h) == TRUE

\* the goroutine is back at `range result`: it works on one message at a time
AtRange(h) == h = <<>>

\* the sequence q without its i-th element
Remove(q, i) == SubSeq(q, 1, i - 1) \o SubSeq(q, i + 1, Len(q))

\* for m := range result: the rendezvous that completes main's send
Receive ==
    /\ pc = "send"
    /\ AtRange(handling)
    /\ handling' = handling \o result
    /\ result' = <<>>
    /\ pc' = "run"
    /\ UNCHANGED <<now, probation, level, dryrun,
                   replay, script, est, msr, out,
                   state, missing, logged,
                   nblocks, sink, failed, last>>

\* Marshal, Println under verbose, SendMessage unless dry-run
Deliver(i) ==
    /\ Running
    /\ sink' = handling[i]
    /\ handling' = Remove(handling, i)
    /\ UNCHANGED <<pc, now, probation, level, dryrun,
                   replay, script, est, msr, out,
                   state, missing, logged,
                   nblocks, result, failed, last>>

\* SendMessage returns an error: log.Panic ends the process
DeliverFail(i) ==
    /\ Running
    /\ ~dryrun
    /\ failed' = failed \cup {handling[i]}
    /\ handling' = Remove(handling, i)
    /\ pc' = "panic"
    /\ UNCHANGED <<now, probation, level, dryrun,
                   replay, script, est, msr, out,
                   state, missing, logged,
                   nblocks, result, sink, last>>

\* the wall clock advances
Tick ==
    /\ Running
    /\ now < MaxTime
    /\ now' = now + 1
    /\ UNCHANGED <<pc, probation, level, dryrun,
                   replay, script, est, msr, out,
                   state, missing, logged,
                   nblocks, result, handling, sink, failed, last>>

Next ==
    \/ \E s \in Streams : InitStream(s)
    \/ StartLoop
    \/ \E b \in Blocks : More(MaxBlocks) /\ Unpack(b) /\ SkipMissing(b)
    \/ \E b \in Blocks : More(MaxBlocks) /\ Unpack(b) /\ LogUnknown(b)
    \/ \E b \in Blocks : More(MaxBlocks) /\ Unpack(b) /\ BlockError(b)
    \/ \E b \in Blocks : More(MaxBlocks) /\ Unpack(b) /\ FlushBlock(b)
    \/ EndOfInput
    \/ Receive
    \/ \E i \in DOMAIN handling : Deliver(i)
    \/ \E i \in DOMAIN handling : DeliverFail(i)
    \/ Tick

Spec == Init /\ [][Next]_vars

\* A run whose input holds blocks of stream "A" only, all of them with good
\* samples, and whose deliveries succeed: the flush gate of one stream.
GateBlocks == {b \in Blocks : b.key = "A" /\ ~b.serr /\ ~b.perr}

NextGate ==
    \/ \E s \in Streams : InitStream(s)
    \/ StartLoop
    \/ \E b \in GateBlocks : More(MaxGateBlocks) /\ Unpack(b) /\ FlushBlock(b)
    \/ EndOfInput
    \/ Receive
    \/ \E i \in DOMAIN handling : Deliver(i)
    \/ Tick

SpecGate == Init /\ [][NextGate]_vars

\* the same run of one stream, with and without -replay
InitReplay ==
    /\ Start
    /\ probation \in 0..MaxProbation
    /\ level \in LevelFlags
    /\ dryrun \in BOOLEAN
    /\ replay \in BOOLEAN
    /\ script = <<>>
    /\ est = NoEstimate

SpecReplay == InitReplay /\ [][NextGate]_vars

\* ------------------------------------------------------- a scripted input

\* the threshold table of channel NET.STA in the end-to-end scenario
ScenarioTable ==
    <<[bp |-> 0, level |-> 0], [bp |-> 100, level |-> 1],
      [bp |-> 500, level |-> 2]>>

\* the peak amplitudes of the four blocks of the scenario
ScenarioPeaks == <<50, 50, 600, 10>>

\* a block of stream "A" with good samples of the given peak
PeakBlock(peak) ==
    [key |-> "A", serr |-> FALSE, perr |-> FALSE,
     mmi |-> Estimate(<<0 - peak, 0>>, ScenarioTable)]

Scenario == [i \in DOMAIN ScenarioPeaks |-> PeakBlock(ScenarioPeaks[i])]

\* the blocks of the short scripts: an unknown source name, a sample error,
\* the lowest and the highest level of one stream, a block of the other
ScriptBlocks ==
    {b \in Blocks :
        \/ b.key = "X"
        \/ b.key = "A" /\ ~b.perr /\ b.mmi \in {0, MaxLevel}
        \/ b.key = "B" /\ ~b.serr /\ ~b.perr /\ b.mmi = 0}

\* the inputs of a scripted run: the scenario, and every two blocks
Scripts == {Scenario} \cup [1..2 -> ScriptBlocks]

InitFed ==
    /\ Start
    /\ probation \in {0, MaxProbation}
    /\ level \in {0, MaxLevel}
    /\ dryrun \in BOOLEAN
    /\ replay = FALSE
    /\ script \in Scripts
    /\ est = NoEstimate

\* in.Read(blk) returns the next block of the script
Fed(b) == nblocks < Len(script) /\ b = script[nblocks + 1]

\* n == 0: the files hold no further block
AllRead == nblocks = Len(script)

\* os.Open(f) fails on the next file: log.Fatal
OpenFail ==
    /\ pc = "run"
    /\ ~AllRead
    /\ pc' = "fatal"
    /\ UNCHANGED <<now, probation, level, dryrun, state, missing, logged,
                   nblocks, result, handling, sink, failed, last, replay,
                   script, out, msr, est>>

\* the steps of main()
MainFed ==
    \/ \E s \in Streams : InitStream(s)
    \/ StartLoop
    \/ \E b \in Blocks : Fed(b) /\ Unpack(b) /\ SkipMissing(b)
    \/ \E b \in Blocks : Fed(b) /\ Unpack(b) /\ LogUnknown(b)
    \/ \E b \in Blocks : Fed(b) /\ Unpack(b) /\ BlockError(b)
    \/ \E b \in Blocks : Fed(b) /\ Unpack(b) /\ FlushBlock(b)
    \/ AllRead /\ EndOfInput

\* the steps of the delivery goroutine
GoroutineFed ==
    \/ Receive
    \/ \E i \in DOMAIN handling : Deliver(i)
    \/ \E i \in DOMAIN handling : DeliverFail(i)

NextFed == MainFed \/ GoroutineFed \/ OpenFail \/ Tick

\* main() and the goroutine are scheduled whenever they can run, and
\* SendMessage returns
SpecFed ==
    InitFed /\ [][NextFed]_vars /\ WF_vars(MainFed) /\ WF_vars(GoroutineFed)

\* ------------------------------------------------ blocks that do not decode

\* the block the loop goes on with: whatever the shared record holds
Content(r) == [key |-> r.key, serr |-> r.serr, perr |-> r.perr, mmi |-> r.mmi]

\* What a failed msr.Unpack can leave in the record: what the block before
\* left there, or fields decoded from bytes that are no miniseed record (a
\* short read leaves the tail of the block before in blk).
Garbled == {Content(msr)} \cup Blocks

\* msr.Unpack(blk, n, 1, 0) fails and leaves c in the record; main() drops the
\* return value and goes on
UnpackFails(c) ==
    msr' = [key |-> c.key, serr |-> c.serr, perr |-> c.perr, mmi |-> c.mmi,
            ok |-> FALSE]

\* a run whose input also holds blocks that do not decode
NextDecode ==
    \/ Next
    \/ \E c \in Garbled : More(MaxBlocks) /\ UnpackFails(c) /\ SkipMissing(c)
    \/ \E c \in Garbled : More(MaxBlocks) /\ UnpackFails(c) /\ LogUnknown(c)
    \/ \E c \in Garbled : More(MaxBlocks) /\ UnpackFails(c) /\ BlockError(c)
    \/ \E c \in Garbled : More(MaxBlocks) /\ UnpackFails(c) /\ FlushBlock(c)

SpecDecode == Init /\ [][NextDecode]_vars

\* ------------------------------------------------------------------ claims

\* the step reads a block; last' tells which block and what became of it
Reads == nblocks' = nblocks + 1

\* the step takes the block it reads to the flush decision
Flushes == Reads /\ last'.kind = "flush"

\* the stream of the block the step reads, before and after the step
Before == state[last'.key]
After == state'[last'.key]

\* the message of the n-th block, of source name k and level l, as it is sent
\* without -replay
MessageOf(k, l, n) == [key |-> k, level |-> l, blk |-> n, time |-> StartTime(n)]

\* the step puts exactly the message of the block it reads on the channel
Queues ==
    /\ result' = <<MessageOf(last'.key, last'.mmi, nblocks')>>
    /\ pc' = "send"

\* the step puts nothing on the result channel and the loop goes on
QueuesNothing == result' = result /\ pc' = "run"

\* the messages handed over and not yet delivered, oldest first
Pending == handling \o result

\* the estimate mmi is a change of level for an Armed stream st
Changes(st, mmi) ==
    st.phase = "Armed" /\ st.lastEmitted # Unset /\ mmi # st.lastEmitted

\* the change evaluated at time t is within the flap tolerance of st
Tolerated(st, t) == Len(Recent(st, t)) + 1 <= FlapTolerance

\* C1 (debounce idempotence): when a stream is Armed and the estimate of a
\* block equals the level last emitted, and likewise when it repeats the
\* estimate of the block before it, Flush answers "no emit", nothing is put
\* on the result channel and lastEmitted stays as it is.
C1_DebounceIdempotence ==
    [][(/\ Flushes
        /\ Before.phase = "Armed"
        /\ \/ last'.mmi = Before.lastEmitted
           \/ last.kind = "flush" /\ last.key = last'.key /\ last.mmi = last'.mmi)
       => /\ ~last'.emit
          /\ QueuesNothing
          /\ After.lastEmitted = Before.lastEmitted]_vars

\* C1 witness: three equal estimates in a row, the first emitted as the
\* baseline, the second and the third suppressed.
C1_Witness ==
    /\ nblocks = 3
    /\ now = 0
    /\ state["A"].phase = "Armed"
    /\ state["A"].changes = <<>>
    /\ last.kind = "flush"
    /\ ~last.emit
    /\ last.mmi = state["A"].lastEmitted
    /\ result = <<>>

\* C2 (probation suppression): every estimate evaluated before the stream's
\* probation deadline gets "no emit" whatever its level, puts nothing on the
\* result channel and leaves lastEmitted unset; so lastEmitted is unset for
\* as long as the deadline has not passed.
C2_ProbationSuppression ==
    /\ [](\A s \in Streams :
            (state[s].inited /\ now < state[s].deadline)
                => state[s].lastEmitted = Unset /\ state[s].phase = "Initializing")
    /\ [][(Flushes /\ now < Before.deadline)
          => /\ ~last'.emit
             /\ QueuesNothing
             /\ After.lastEmitted = Unset]_vars

\* C2 witness: an estimate of the highest level was evaluated during
\* probation.
C2_Witness ==
    /\ last.kind = "flush"
    /\ last.mmi = MaxLevel
    /\ now < state[last.key].deadline
    /\ state[last.key].lastEmitted = Unset
    /\ result = <<>>

\* C3 (first post-probation emit): the first estimate evaluated at or after
\* the probation deadline (the stream is still Initializing) is emitted
\* whatever its level, its message is put on the result channel, and the
\* stream becomes Armed with that level as lastEmitted.
C3_FirstPostProbationEmit ==
    [][(Flushes /\ now >= Before.deadline /\ Before.phase = "Initializing")
       => /\ last'.emit
          /\ Queues
          /\ After.phase = "Armed"
          /\ After.lastEmitted = last'.mmi]_vars

\* C3 witness: with a probation window of 1 the first block was suppressed
\* and the second, of level 0, was emitted as the baseline.
C3_Witness ==
    /\ probation = 1
    /\ nblocks = 2
    /\ last.kind = "flush"
    /\ last.key = "A"
    /\ last.mmi = 0
    /\ last.emit
    /\ state["A"].phase = "Armed"
    /\ state["A"].lastEmitted = 0
    /\ state["A"].changes = <<>>

C5_FlapSuppression ==
    [][Flushes =>
        /\ (Changes(Before, last'.mmi) /\ ~Tolerated(Before, now))
           => /\ ~last'.emit
              /\ QueuesNothing
              /\ After.phase = "Noisy"
              /\ After.noisyUntil = now + Cooldown
        /\ (Before.phase = "Noisy" /\ now < Before.noisyUntil)
           => /\ ~last'.emit
              /\ QueuesNothing
              /\ After = Before
        /\ (/\ Before.phase = "Noisy"
            /\ now >= Before.noisyUntil
            /\ last'.mmi # Before.lastEmitted)
           => /\ last'.emit
              /\ Queues
              /\ After.phase = "Armed"
              /\ After.lastEmitted = last'.mmi]_vars

\* C5 witness: the stream has been Noisy, the cooldown has elapsed and a new
\* level was emitted.
C5_Witness ==
    /\ state["A"].phase = "Armed"
    /\ state["A"].noisyUntil > 0
    /\ now >= state["A"].noisyUntil
    /\ last.emit
    /\ state["A"].lastEmitted = last.mmi
    /\ nblocks = 4

\* C6 (unknown channel): a block whose source name has no configuration
\* changes no stream, puts nothing on the result channel and the loop goes
\* on; its source name is logged by the first such block and never again.
C6_UnknownChannel ==
    /\ [](\A k \in Keys : logged[k] = IF k \in missing THEN 1 ELSE 0)
    /\ [](missing \subseteq Unknown)
    /\ [][(Reads /\ last'.key \notin Streams)
          => /\ state' = state
             /\ QueuesNothing
             /\ last'.kind \in {"unknown", "skip"}
             /\ logged'[last'.key] = 1
             /\ \A k \in Keys \ {last'.key} : logged'[k] = logged[k]]_vars

\* C6 witness: both unknown source names were logged once, and a later block
\* of the first was skipped.
C6_Witness ==
    /\ last.kind = "skip"
    /\ last.key = "X"
    /\ logged["X"] = 1
    /\ logged["Y"] = 1
    /\ nblocks = 3

\* C7 (per-block errors): a block with an unknown source name, or whose
\* DataSamples or ProcessSamples fails, never reaches Flush, puts nothing on
\* the result channel, leaves every stream as it is, and the loop goes on
\* with the next block.
C7_BlockErrorsSkipped ==
    [][(Reads /\ (last'.key \notin Streams \/ last'.err # "none"))
       => /\ state' = state
          /\ QueuesNothing
          /\ last'.kind \in {"unknown", "skip", "samples", "process"}
          /\ ~last'.emit]_vars

\* C7 witness: ProcessSamples failed for a stream that had emitted before,
\* and the stream kept what it had.
C7_Witness ==
    /\ last.kind = "process"
    /\ last.err = "process"
    /\ state[last.key].phase = "Armed"
    /\ state[last.key].lastEmitted = MaxLevel
    /\ pc = "run"

\* C8 (delivery failure): a message is handed to the goroutine only after
\* lastEmitted was set to its level; a failing SendMessage changes no stream
\* and puts nothing back on the channel, and a failed message is never
\* pending again.
C8_DeliveryFailureKeepsDecision ==
    /\ [](result # <<>> =>
            /\ pc \in {"send", "panic"}
            /\ state[result[1].key].lastEmitted = result[1].level)
    /\ [](\A m \in failed :
            /\ pc = "panic"
            /\ \A i \in DOMAIN Pending : Pending[i] # m)
    /\ [][failed' # failed =>
            /\ state' = state
            /\ result' = result
            /\ Len(handling') < Len(handling)]_vars

\* C8 witness: SendMessage failed for a message whose level is still the
\* stream's lastEmitted.
C8_Witness ==
    /\ pc = "panic"
    /\ \E m \in failed : state[m.key].lastEmitted = m.level

\* C9 (per-channel order): the pending messages are in the order of their
\* blocks, and the goroutine delivers a message only when no older message
\* of the same stream is pending.
C9_PerChannelOrder ==
    /\ [](\A i, j \in DOMAIN Pending :
            i < j => Pending[i].blk < Pending[j].blk)
    /\ [](\A i \in DOMAIN Pending :
            Pending[i].key = sink.key => sink.blk < Pending[i].blk)
    /\ [][sink' # sink =>
            /\ \E i \in DOMAIN handling : sink' = handling[i]
            /\ \A i \in DOMAIN Pending :
                  Pending[i].key = sink'.key => sink'.blk <= Pending[i].blk]_vars

\* C9 witness: a message of a stream was delivered and two later messages
\* of that stream are pending, the older one with the goroutine.
C9_Witness ==
    /\ sink.key = "A"
    /\ Len(Pending) = 2
    /\ Pending[1].key = "A"
    /\ Pending[2].key = "A"

\* C10 (startup is all-or-nothing): Init has been called exactly once for
\* every stream before any block is processed and is never called again;
\* when Init fails for a stream the run is over with no block read and no
\* message sent.
C10_StartupAllOrNothing ==
    /\ [](\A s \in Streams : state[s].ninit <= 1)
    /\ []((pc # "init" /\ pc # "fatal") =>
            \A s \in Streams : state[s].inited /\ state[s].ninit = 1)
    /\ []((pc \in {"init", "fatal"} \/ \E s \in Streams : ~LevelInRange(s, level))
            => /\ pc \in {"init", "fatal"}
               /\ nblocks = 0
               /\ last = NoBlock
               /\ Pending = <<>>
               /\ sink = NoMessage)
    /\ [][/\ pc = "fatal" => pc' = "fatal"
          /\ Reads => \A s \in Streams : state'[s].ninit = 1 /\ state[s].ninit = 1]_vars

\* C10 witness: Init failed for one stream after it had succeeded for the
\* other, and the run ended there.
C10_Witness ==
    /\ pc = "fatal"
    /\ state["A"].inited
    /\ ~state["B"].inited
    /\ nblocks = 0

\* the level of the highest row of t whose breakpoint is at most the peak a,
\* 0 when a is below the first breakpoint
HighestRow(t, a) ==
    LET reached == {i \in DOMAIN t : t[i].bp <= a}
    IN IF reached = {} THEN 0
       ELSE t[CHOOSE i \in reached : \A j \in reached : j <= i].level

\* C11 (monotonic estimator): under one non-decreasing threshold table the
\* level the estimator returns for a block is the level of the highest row
\* whose breakpoint is at most the block's peak amplitude, 0 below the first
\* breakpoint, and a block of smaller peak never gets a larger level nor a
\* block of larger peak a smaller one.
C11_MonotonicEstimator ==
    est.level # Unset =>
        /\ est.level = HighestRow(est.table, Peak(est.samples))
        /\ \A s \in SampleBlocks :
               /\ Peak(s) < Peak(est.samples)
                      => Estimate(s, est.table) <= est.level
               /\ Peak(est.samples) < Peak(s)
                      => est.level <= Estimate(s, est.table)

\* C11 witness: a table of two rows, the peak a negative sample that reaches
\* the first breakpoint and not the second: the level of the first row.
C11_Witness ==
    /\ est.table = <<[bp |-> 1, level |-> 1], [bp |-> MaxAmp, level |-> 2]>>
    /\ est.samples = <<1 - MaxAmp, 1>>
    /\ est.level = 1

\* the run of the end-to-end scenario: probation disabled, sensitivity level 0
InScenario == script = Scenario /\ probation = 0 /\ level = 0

\* the messages of the scenario: blocks 1, 3 and 4 with levels 0, 2 and 0
ScenarioMessages ==
    <<MessageOf("A", 0, 1), MessageOf("A", 2, 3), MessageOf("A", 0, 4)>>

\* the scenario messages of the first n blocks
MessagesUpTo(n) == SelectSeq(ScenarioMessages, LAMBDA m : m.blk <= n)

C13_MessageIffPositiveDecision ==
    [][/\ Flushes => IF last'.emit THEN Queues ELSE QueuesNothing
       /\ (Reads /\ ~Flushes) => QueuesNothing
       /\ (result' # result /\ result' # <<>>) => (Flushes /\ last'.emit)
       /\ Len(result') <= 1]_vars

\* C13 witness: a block with a positive decision whose message is delivered,
\* then a block of the same stream with a negative decision and no message.
C13_Witness ==
    /\ last.kind = "flush"
    /\ ~last.emit
    /\ sink.key = last.key
    /\ sink.blk = nblocks - 1
    /\ Pending = <<>>
    /\ pc = "run"

\* C14 (lastEmitted changes only on emit): the lastEmitted of a stream changes
\* only in the step that reads a block of that stream without error and gets a
\* positive flush decision for it, and is then the level of the message of
\* that block; a suppressed estimate (probation, equal level, Noisy), a block
\* skipped on an error and every other step leave it as it is.
C14_LastEmittedOnlyOnEmit ==
    [][\A s \in Streams :
          /\ state'[s].lastEmitted # state[s].lastEmitted
                 => /\ Flushes
                    /\ last'.key = s
                    /\ last'.err = "none"
                    /\ last'.emit
                    /\ Queues
          /\ (Flushes /\ last'.key = s /\ last'.emit)
                 => state'[s].lastEmitted = last'.mmi
          /\ (Reads /\ last'.key = s /\ ~last'.emit)
                 => state'[s].lastEmitted = state[s].lastEmitted]_vars

\* C14 witness: a stream whose baseline 0 was emitted and delivered, and whose
\* next block changed lastEmitted to the highest level with its message.
C14_Witness ==
    /\ last.kind = "flush"
    /\ last.emit
    /\ last.mmi = MaxLevel
    /\ state[last.key].lastEmitted = MaxLevel
    /\ sink = MessageOf(last.key, 0, nblocks - 1)
    /\ result = <<MessageOf(last.key, MaxLevel, nblocks)>>

\* C15 (leaving Noisy replays nothing): a stream leaves Noisy only in a step
\* that evaluates a new estimate of it once the cooldown is over; that step
\* puts nothing on result when the estimate equals lastEmitted and otherwise
\* the one message of the block it evaluates, never a message for a change
\* suppressed while the stream was Noisy.
C15_NoReplayAfterNoisy ==
    [][\A s \in Streams :
          (state[s].phase = "Noisy" /\ state'[s].phase # "Noisy")
              => /\ Flushes
                 /\ last'.key = s
                 /\ now >= state[s].noisyUntil
                 /\ state'[s].phase = "Armed"
                 /\ IF last'.mmi = state[s].lastEmitted
                    THEN ~last'.emit /\ QueuesNothing
                    ELSE last'.emit /\ Queues
                 /\ state'[s].lastEmitted \in {state[s].lastEmitted, last'.mmi}]_vars

\* C15 witness: the stream turned Noisy on a suppressed change, the cooldown
\* passed, and the estimate that took it back to Armed equals lastEmitted: no
\* message, and the latest one delivered is still the one before the noise.
C15_Witness ==
    /\ state["A"].phase = "Armed"
    /\ state["A"].noisyUntil > 0
    /\ now >= state["A"].noisyUntil
    /\ last.kind = "flush"
    /\ ~last.emit
    /\ last.mmi = state["A"].lastEmitted
    /\ sink.level = state["A"].lastEmitted
    /\ sink.blk = 2
    /\ nblocks = 4
    /\ Pending = <<>>

\* C16 (channel independence): the step that reads a block of source name k
\* leaves the stream of every other source name exactly as it was, and the
\* decision and the new state of the stream of k are those Flush gives for
\* that stream's own state, the block's level and the clock.
C16_ChannelIndependence ==
    [][Reads
       => /\ \A s \in Streams \ {last'.key} : state'[s] = state[s]
          /\ Flushes
                 => /\ After = Flush(Before, last'.mmi, now).st
                    /\ last'.emit = Flush(Before, last'.mmi, now).emit]_vars

\* C16 witness: blocks of the two streams interleaved, each stream holding
\* the level of its own latest message.
C16_Witness ==
    /\ state["A"].lastEmitted = MaxLevel
    /\ state["B"].lastEmitted = 0
    /\ last.kind = "flush"
    /\ last.key = "B"
    /\ last.emit
    /\ sink = MessageOf("A", MaxLevel, nblocks - 1)

\* C17 (replay overrides the time only): the decision for a block and the
\* stream after it are those of Flush for the stream, the level and the
\* clock, with -replay and without it; the message of a positive decision
\* carries the block's source name, level and ordinal either way, and as its
\* time the start time of the block without -replay and with -replay the
\* wall clock, cut to the whole second, read when the message is sent.
C17_ReplayOverridesTimeOnly ==
    [][Flushes
       => /\ After = Flush(Before, last'.mmi, now).st
          /\ last'.emit = Flush(Before, last'.mmi, now).emit
          /\ IF last'.emit
             THEN /\ Len(result') = 1
                  /\ result'[1].key = last'.key
                  /\ result'[1].level = last'.mmi
                  /\ result'[1].blk = nblocks'
                  /\ result'[1].time = IF replay THEN <<"wall", now * Second>>
                                       ELSE StartTime(nblocks')
                  /\ pc' = "send"
             ELSE QueuesNothing]_vars

\* C17 witness: under -replay the message of the second block, sent after the
\* clock has advanced, is delivered with the whole second of the wall clock as
\* its time, the stream holding the level of that message.
C17_Witness ==
    /\ replay
    /\ now > 0
    /\ sink.blk = 2
    /\ sink.level = MaxLevel
    /\ sink.time = <<"wall", now * Second>>
    /\ state["A"].lastEmitted = MaxLevel

\* main() has returned or the process was ended by log.Fatal or log.Panic
Ended == pc \in {"done", "fatal", "panic"}

\* C18 (no indefinite blocking): with main() and the delivery goroutine
\* scheduled, every run over a finite input ends; a send on result is always
\* taken or the process ended; the blocks are handled in the order of the
\* input, and main() returns only once every block has been handled.
C18_NoIndefiniteBlocking ==
    /\ <>Ended
    /\ (pc = "send") ~> (pc # "send")
    /\ [](nblocks > 0 =>
              /\ nblocks <= Len(script)
              /\ last.key = script[nblocks].key
              /\ last.mmi = script[nblocks].mmi
              /\ last.err = ErrorOf(script[nblocks]))
    /\ [](pc = "done" => nblocks = Len(script))

\* C18 witness: main() has returned after a script whose last block was handed
\* over to the goroutine and delivered.
C18_Witness ==
    /\ pc = "done"
    /\ nblocks = Len(script)
    /\ last.emit
    /\ sink.blk = nblocks
    /\ Pending = <<>>

\* C19 (no message lost at shutdown): once main() has returned, every message
\* that was put on result has been passed to the sink: none is still with the
\* delivery goroutine, the message of the last block of the last file included.
C19_NoMessageLostAtExit == pc = "done" => Pending = <<>>

\* C20 (every block is judged on its own data): a block that reaches a stream
\* (sample recovery, ProcessSamples, Flush) was decoded from its own bytes; a
\* block whose Unpack failed is never handed to a stream with what the shared
\* record held.
C20_OwnData ==
    last.kind \in {"samples", "process", "flush"} => msr.ok

====
